---- MODULE Spec2Model ----
(***************************************************************************)
(* ResearchMate: the retrieval-augmented query pipeline.                   *)
(*                                                                         *)
(* SplitSpec  models TextSplitter (backend/app/utils/text_splitter.py),    *)
(*            the Settings validation of the chunking parameters and       *)
(*            DocumentProcessor.chunk_text's input check.                  *)
(* Spec       models DocumentService and VectorStoreService: upload,       *)
(*            delete_document and similarity_search over the collection.   *)
(* QuerySpec  models RAGService.query over the same collection, with the   *)
(*            conversation store and the generation call.                  *)
(* HistorySpec models _format_conversation_history on the conversations    *)
(*            the store can hold.                                          *)
(* IndexSpec  models the life of the Chroma collection: __init__, uploads, *)
(*            delete_by_source, delete_collection, get_status, search.     *)
(* ApiSpec    models the routes: every request gets its own RAGService;    *)
(*            /query builds its QueryResponse, /health its HealthResponse. *)
(* SingletonSpec models concurrent calls of VectorStoreService().          *)
(* LoopSpec   models the handlers of /query, /upload and /reset as the     *)
(*            event loop schedules them.                                   *)
(***************************************************************************)
EXTENDS Integers, Sequences, FiniteSets, TLC

\* ------------------------------------------------------------------ bounds
MaxLen == 5       \* longest text handed to the splitter
MaxSize == 4      \* largest chunk_size / chunk_overlap given to TextSplitter(...)
MaxIter == 4      \* loop iterations of split_text that are followed
MaxDocs == 2      \* uploads followed
MaxChunks == 2    \* most chunks one uploaded document yields
MaxK == 2         \* largest k / max_results asked for
MaxIndex == 3     \* chunks the collection holds at most
MaxQueries == 2   \* queries followed
MaxTurns == 3     \* turns in the longest conversation handed to the formatter
\* threads calling VectorStoreService() at the same time
MaxThreads == 3
\* requests the event loop has to serve
MaxRequests == 3

\* ------------------------------------------------------- program constants
SENTENCE_LOOKBACK == 100
WORD_LOOKBACK == 50
CHUNK_SIZE_MIN == 100
CHUNK_SIZE_MAX == 10000
CHUNK_OVERLAP_MAX == 1000
CHUNK_SIZE_DEFAULT == 1000
TOP_K_RETRIEVAL == 5
\* Distances and scores are counted in halves: ONE stands for the 1 of
\* `1 - score if score < 1 else 0.0`.
ONE == 2

VARIABLES
    text,           \* the text given to split_text / chunk_text
    chunk_size,     \* TextSplitter.chunk_size
    chunk_overlap,  \* TextSplitter.chunk_overlap
    origin,         \* where the parameters came from: "settings" or "direct"
    spc,            \* position in split_text: "new", "loop", "done"
    start,          \* split_text's local `start`
    chunks,         \* split_text's local `chunks`
    windows,        \* history: <<start, end>> of every window cut so far
    dp_outcome,     \* DocumentProcessor.chunk_text on the same text
    index,          \* the chunks held by the Chroma collection
    documents_metadata, \* DocumentService.documents_metadata (the JSON file)
    uploads,        \* number of process_document calls so far
    deleted,        \* history: documents whose delete_document completed
    ret,            \* what the most recent service call returned
    qpc,            \* position of the request in RAGService.query
    req,            \* the request being handled by RAGService.query
    retrieved_docs, \* query's local `retrieved_docs`
    response,       \* what query returned (or the error it raised)
    llm_calls,      \* history: generate_response calls made for the request
    conversations,  \* RAGService.conversations
    conv_before,    \* history: conversations when the request came in
    queries,        \* number of queries started
    search_calls,   \* history: similarity_search calls made for the request
    conversation_context, \* query's local `conversation_context`
    failed,         \* history: the stage of the request that raised
    recorded,       \* history: the turns queries recorded, per conversation id
    completed,      \* history: per conversation id, the queries that ran to
                    \* the return of lines 86-90
    collection_cfg, \* the configuration of the backend's collection
    startup_cfg,    \* history: collection_cfg when __init__ had finished
    emptied,        \* history: delete_collection ran and nothing was added since
    http,           \* the HTTP response of the route that ran last
    backend,        \* what is up: the Ollama server, the Chroma collection
    instance,       \* VectorStoreService._instance (0: None)
    initialized,    \* VectorStoreService._initialized
    objects,        \* number of VectorStoreService objects allocated
    init_runs,      \* history: how often the body of __init__ was run
    threads,        \* per thread calling VectorStoreService(): position, self
    tasks,          \* per request of the event loop: its route and position
    loop,           \* the task the event loop thread is running (0: none)
    coll,           \* delete_collection's progress on collection and handles
    seen            \* history: the states of coll that index calls worked on

splitVars == <<text, chunk_size, chunk_overlap, origin, spc, start, chunks,
               windows, dp_outcome>>
storeVars == <<index, documents_metadata, uploads, deleted, ret>>
queryVars == <<qpc, req, retrieved_docs, response, llm_calls, conversations,
               conv_before, queries, search_calls, conversation_context,
               failed, recorded, completed>>
indexVars == <<collection_cfg, startup_cfg, emptied>>

apiVars == <<http, backend>>
singletonVars == <<instance, initialized, objects, init_runs, threads>>
loopVars == <<tasks, loop, coll, seen>>
procVars == <<apiVars, singletonVars, loopVars>>

vars == <<splitVars, storeVars, queryVars, indexVars, procVars>>

\* ------------------------------------------------------------ Python helpers
Max2(a, b) == IF a >= b THEN a ELSE b
Min2(a, b) == IF a <= b THEN a ELSE b
SetMax(S) == CHOOSE x \in S : \A y \in S : y <= x

\* A slice index as Python normalises it for a sequence of length n.
SliceIndex(i, n) == IF i < 0 THEN Max2(i + n, 0) ELSE Min2(i, n)

\* t[a:b]
Slice(t, a, b) ==
    LET lo == SliceIndex(a, Len(t))
        hi == SliceIndex(b, Len(t))
    IN  IF lo >= hi THEN <<>> ELSE SubSeq(t, lo + 1, hi)

\* s.rfind(sub): the highest 0-based index at which sub occurs, or -1
RFind(s, sub) ==
    LET m == Len(sub)
        hits == {i \in 0..(Len(s) - m) : SubSeq(s, i + 1, i + m) = sub}
    IN  IF hits = {} THEN -1 ELSE SetMax(hits)

IsSpace(c) == c \in {" ", "\n"}

\* s.strip()
Strip(s) ==
    LET keep == {i \in 1..Len(s) : ~IsSpace(s[i])}
    IN  IF keep = {} THEN <<>>
        ELSE SubSeq(s, CHOOSE i \in keep : \A j \in keep : i <= j, SetMax(keep))

\* No text counted as blank.
IsBlank_never(t) == FALSE

\* `not text or not text.strip()`
IsBlank(t) == t = <<>> \/ Strip(t) = <<>>

\* ------------------------------------------------------------- TextSplitter
sentence_endings ==
    << <<".", " ">>, <<"!", " ">>, <<"?", " ">>,
       <<".", "\n">>, <<"!", "\n">>, <<"?", "\n">> >>

\* The for loop of _find_sentence_boundary: best_pos after endings i..6.
RECURSIVE BestPos(_, _, _)
BestPos(substring, i, best_pos) ==
    IF i > Len(sentence_endings) THEN best_pos
    ELSE LET pos == RFind(substring, sentence_endings[i])
         IN  BestPos(substring, i + 1,
                     IF pos > best_pos THEN pos + Len(sentence_endings[i])
                                       ELSE best_pos)

find_sentence_boundary(t, s, e) ==
    LET search_start == Max2(s, e - SENTENCE_LOOKBACK)
        substring == Slice(t, search_start, e)
        best_pos == BestPos(substring, 1, -1)
    IN  IF best_pos > 0 THEN search_start + best_pos ELSE -1

\* A word boundary taken one character too far.
find_word_boundary_past(t, s, e) ==
    LET search_start == Max2(s, e - WORD_LOOKBACK)
        substring == Slice(t, search_start, e)
        pos == RFind(substring, <<" ">>)
    IN  IF pos > 0 THEN search_start + pos + 2 ELSE e

find_word_boundary(t, s, e) ==
    LET search_start == Max2(s, e - WORD_LOOKBACK)
        substring == Slice(t, search_start, e)
        pos == RFind(substring, <<" ">>)
    IN  IF pos > 0 THEN search_start + pos + 1 ELSE e

\* Lines 43-55 of split_text: the end of the window that starts at s.
WindowEnd(t, s, size) ==
    LET e == s + size
    IN  IF e < Len(t)
        THEN LET sentence_end == find_sentence_boundary(t, s, e)
             IN  IF sentence_end > s THEN sentence_end
                 ELSE LET word_end == find_word_boundary(t, s, e)
                      IN  IF word_end > s THEN word_end ELSE e
        ELSE e

\* Line 63 of split_text.
NextStart(t, e, overlap) == IF e < Len(t) THEN e - overlap ELSE Len(t)

\* ----------------------------------------------------------------- Settings
\* Settings(CHUNK_SIZE=size, CHUNK_OVERLAP=overlap) passes validation.
SizeFieldOk(size) == size >= CHUNK_SIZE_MIN /\ size <= CHUNK_SIZE_MAX

validate_chunk_overlap(v, size) ==
    LET cs == IF SizeFieldOk(size) THEN size ELSE CHUNK_SIZE_DEFAULT
    IN  ~(v >= cs)

SettingsAccepts(size, overlap) ==
    /\ SizeFieldOk(size)
    /\ overlap >= 0 /\ overlap <= CHUNK_OVERLAP_MAX
    /\ validate_chunk_overlap(overlap, size)

\* ------------------------------------------------------- DocumentProcessor
\* chunk_text: ValueError on empty or whitespace-only text, chunks otherwise.
chunk_text_outcome(t) == IF IsBlank(t) THEN "ValueError" ELSE "chunks"

\* ------------------------------------------------------------ SplitSpec
Alphabet == {"a", ".", " ", "!"}
Texts == UNION {[1..n -> Alphabet] : n \in 0..MaxLen}

\* Parameter pairs tried against Settings(...).
SettingsCandidates ==
    {<<CHUNK_SIZE_MIN, 0>>, <<CHUNK_SIZE_MIN, CHUNK_SIZE_MIN - 1>>,
     <<CHUNK_SIZE_MIN, CHUNK_SIZE_MIN>>, <<CHUNK_SIZE_MIN - 1, 0>>,
     <<CHUNK_SIZE_DEFAULT, CHUNK_OVERLAP_MAX>>}

\* No splitter at work.
SplitIdle ==
    /\ text = <<>> /\ origin = "direct"
    /\ chunk_size = CHUNK_SIZE_DEFAULT /\ chunk_overlap = 0
    /\ spc = "new" /\ start = 0 /\ chunks = <<>> /\ windows = <<>>
    /\ dp_outcome = "none"

NoCall == [op |-> "none", ok |-> TRUE, k |-> 0, docs |-> <<>>]

\* ------------------------------------------------ the backend's collection
\* The metric of a collection created without metadata, and the one named by
\* metadata={"hnsw:space": "cosine"}.
DEFAULT_SPACE == "l2"
COSINE == "cosine"

NoCollection == [exists |-> FALSE, space |-> "none"]

\* client.get_or_create_collection(name, metadata): an existing collection is
\* returned as it is, its metric was fixed when it was created; otherwise the
\* collection is created with the metric asked for.
get_or_create_collection(cfg, space) ==
    IF cfg.exists THEN cfg ELSE [exists |-> TRUE, space |-> space]

\* Chroma(client=..., collection_name=..., embedding_function=...): the
\* wrapper gets or creates the collection and passes no metadata.
chroma_wrapper(cfg) == get_or_create_collection(cfg, DEFAULT_SPACE)

\* __init__, lines 88-98: the wrapper first, then get_or_create_collection
\* with the cosine metadata.
init_collection(cfg) == get_or_create_collection(chroma_wrapper(cfg), COSINE)

\* delete_collection, lines 265-278: the collection is deleted, then
\* get_or_create_collection with the cosine metadata, then the wrapper.
recreate_collection(cfg) ==
    chroma_wrapper(get_or_create_collection(NoCollection, COSINE))

\* The vector store service constructed over an empty persist directory.
IndexStarted ==
    /\ collection_cfg = init_collection(NoCollection)
    /\ startup_cfg = init_collection(NoCollection)
    /\ emptied = FALSE

\* The services right after construction: an empty collection, no metadata.
StoreIdle ==
    /\ index = {} /\ documents_metadata = <<>> /\ uploads = 0
    /\ deleted = {} /\ ret = NoCall
    /\ IndexStarted

\* conversation_id=None, a caller's id, the n-th str(uuid.uuid4())
NoneId == <<"none", 0>>
GivenId == <<"given", 1>>
NewId(n) == <<"uuid", n>>

NoRequest == [question |-> <<>>, conversation_id |-> NoneId, max_results |-> 0,
              given |-> NoneId]
NoResponse == [kind |-> "none", answer |-> "", sources |-> <<>>,
               conversation_id |-> NoneId]

QueryIdle ==
    /\ qpc = "idle" /\ req = NoRequest /\ retrieved_docs = <<>>
    /\ response = NoResponse /\ llm_calls = <<>> /\ conversations = <<>>
    /\ conv_before = <<>> /\ queries = 0
    /\ search_calls = <<>> /\ conversation_context = <<>> /\ failed = "none"
    /\ recorded = <<>> /\ completed = <<>>

\* No route has answered; Ollama and the collection are up.
NoHttp == [route |-> "none", status |-> 0, body |-> [detail |-> ""],
           of |-> NoResponse]
AllUp == [ollama |-> TRUE, store |-> TRUE]
ApiIdle == http = NoHttp /\ backend = AllUp

\* The class attributes as the class statement leaves them (lines 37-38).
SingletonIdle ==
    /\ instance = 0 /\ initialized = FALSE /\ objects = 0 /\ init_runs = 0
    /\ threads = <<>>

\* No request on the event loop, the collection in place.
LoopIdle == tasks = <<>> /\ loop = 0 /\ coll = "ready" /\ seen = {}

ProcIdle == ApiIdle /\ SingletonIdle /\ LoopIdle

SplitInit ==
    /\ StoreIdle /\ QueryIdle /\ ProcIdle
    /\ text \in Texts
    /\ origin \in {"settings", "direct"}
    /\ \/ /\ origin = "settings"
          /\ \E p \in SettingsCandidates :
                /\ SettingsAccepts(p[1], p[2])
                /\ chunk_size = p[1]
                /\ chunk_overlap = p[2]
       \/ /\ origin = "direct"      \* TextSplitter(chunk_size, chunk_overlap)
          /\ chunk_size \in 1..MaxSize
          /\ chunk_overlap \in 0..MaxSize
    /\ spc = "new"
    /\ start = 0
    /\ chunks = <<>>
    /\ windows = <<>>
    /\ dp_outcome = "none"

\* split_text is called: lines 34-39.
SplitCall ==
    /\ spc = "new"
    /\ spc' = IF text = <<>> THEN "done" ELSE "loop"
    /\ start' = 0
    /\ chunks' = <<>>
    /\ UNCHANGED <<text, chunk_size, chunk_overlap, origin, windows, dp_outcome>>
    /\ UNCHANGED <<storeVars, queryVars, indexVars, procVars>>

\* One iteration of the while loop: lines 41-63.
SplitStep ==
    /\ spc = "loop"
    /\ start < Len(text)
    /\ Len(windows) < MaxIter
    /\ LET e == WindowEnd(text, start, chunk_size)
           chunk == Strip(Slice(text, start, e))
       IN  /\ chunks' = IF chunk # <<>> THEN Append(chunks, chunk) ELSE chunks
           /\ windows' = Append(windows, <<start, e>>)
           /\ start' = NextStart(text, e, chunk_overlap)
    /\ UNCHANGED <<text, chunk_size, chunk_overlap, origin, spc, dp_outcome>>
    /\ UNCHANGED <<storeVars, queryVars, indexVars, procVars>>

\* The loop condition fails: lines 65-66.
SplitReturn ==
    /\ spc = "loop"
    /\ ~(start < Len(text))
    /\ spc' = "done"
    /\ UNCHANGED <<text, chunk_size, chunk_overlap, origin, start, chunks,
                   windows, dp_outcome>>
    /\ UNCHANGED <<storeVars, queryVars, indexVars, procVars>>

\* DocumentProcessor.chunk_text(text)
ChunkText ==
    /\ dp_outcome = "none"
    /\ dp_outcome' = chunk_text_outcome(text)
    /\ UNCHANGED <<text, chunk_size, chunk_overlap, origin, spc, start, chunks,
                   windows>>
    /\ UNCHANGED <<storeVars, queryVars, indexVars, procVars>>

SplitNext == SplitCall \/ SplitStep \/ SplitReturn \/ ChunkText

SplitSpec == SplitInit /\ [][SplitNext]_vars

\* =================================================== claims on SplitSpec
\* The precondition of the chunker's contract: 0 <= overlap < size.
ParamsValid == chunk_overlap >= 0 /\ chunk_overlap < chunk_size

\* The positions of the text a window <<s, e>> covers (as text[s:e] reads them).
Covered(w) ==
    {p \in 1..Len(text) :
        SliceIndex(w[1], Len(text)) < p /\ p <= SliceIndex(w[2], Len(text))}

\* C2: for a non-empty text and 0 <= overlap < size, the window start strictly
\* increases on every loop iteration of split_text (it never stays put, moves
\* backward or becomes negative), so the loop ends.
C2_StartStrictlyIncreases ==
    (text # <<>> /\ ParamsValid /\ windows # <<>>) =>
        (start >= 0 /\ start > windows[Len(windows)][1])

\* C3: no chunker is ever run with overlap >= size: such parameters are
\* rejected before any chunking takes place.
C3_OverlapBelowSizeWhenRun == windows # <<>> => chunk_overlap < chunk_size

\* C4: every chunk split_text has collected is at most chunk_size long, for
\* every text and every 0 <= overlap < size.
C4_NoChunkExceedsSize ==
    ParamsValid => \A i \in 1..Len(chunks) : Len(chunks[i]) <= chunk_size

\* C4 witness: a finished split of several chunks, one of them of full size.
C4_Witness ==
    /\ ParamsValid
    /\ spc = "done"
    /\ chunk_size >= 3 /\ chunk_overlap >= 1
    /\ Len(chunks) >= 2
    /\ \E i \in 1..Len(chunks) : Len(chunks[i]) = chunk_size

\* C5: the first window starts at 0, every window that did not reach the end
\* of the text is followed by one starting at its end minus chunk_overlap, and
\* the two adjacent windows share chunk_overlap characters of the text.
C5_AdjacentWindowsShareOverlap ==
    (text # <<>> /\ ParamsValid) =>
        /\ (windows # <<>> => windows[1][1] = 0)
        /\ \A i \in 1..(Len(windows) - 1) :
              windows[i][2] < Len(text) =>
                /\ windows[i + 1][1] = windows[i][2] - chunk_overlap
                /\ Cardinality(Covered(windows[i]) \cap Covered(windows[i + 1]))
                       = chunk_overlap

\* C6: chunking an empty or whitespace-only text fails with an empty-input
\* error: neither chunker returns a list for it.
C6_BlankTextIsRejected ==
    IsBlank(text) => (spc # "done" /\ dp_outcome \in {"none", "ValueError"})

\* The ends q of the sentence terminators that lie inside the lookback of the
\* window starting at s: text[q-2:q] is '.', '!' or '?' followed by a space or
\* a newline, and max(s, s + size - 100) <= q - 2, q <= s + size.
TerminatorEnds(s) ==
    {q \in (Max2(s, s + chunk_size - SENTENCE_LOOKBACK) + 2)..(s + chunk_size) :
        /\ q <= Len(text)
        /\ text[q - 1] \in {".", "!", "?"}
        /\ text[q] \in {" ", "\n"}}

\* C27: a window that does not reach the end of the text and has a sentence
\* terminator inside its last 100 characters ends immediately after the last
\* such terminator; a word boundary is used only when there is none.
C27_EndsAfterLastTerminator ==
    ParamsValid =>
        \A i \in 1..Len(windows) :
            LET s == windows[i][1]
            IN  (s >= 0 /\ s + chunk_size < Len(text) /\ TerminatorEnds(s) # {})
                    => windows[i][2] = SetMax(TerminatorEnds(s))

\* ================================================= VectorStoreService
Filenames == {"a.pdf", "b.pdf"}

\* str(uuid.uuid4()) values: the id of the n-th upload and of its i-th chunk.
DocId(n) == <<"uuid", n, 0>>
ChunkId(n, i) == <<"uuid", n, i>>
\* An int stored where an id is expected.
IntAsId(n) == <<"int", n, 0>>
IsStrId(x) == x[1] = "uuid"

Range(f) == {f[i] : i \in DOMAIN f}

\* add_documents, lines 146-165: one entry per chunk, each with its own fresh
\* chunk_id and the base metadata; n is the number of chunks, serial the
\* upload the fresh ids are drawn for.
add_documents(idx, n, base_metadata, serial) ==
    idx \cup {[chunk_id |-> ChunkId(serial, i),
               filename |-> base_metadata.filename,
               document_id |-> base_metadata.document_id,
               chunk_index |-> i - 1,
               total_chunks |-> n] : i \in 1..n}

\* add_documents' return value, lines 173-178.
add_documents_result(n) == [status |-> "success", documents_added |-> n]

\* collection.delete(ids=ids): entries with these ids go, unknown ids are
\* ignored.
collection_delete_ids(idx, ids) == {c \in idx : c.chunk_id \notin Range(ids)}

\* Distances the backend can report, in halves: a rounding error below 0,
\* then 0, 0.5, 1 and 1.5.
Distances == {-1, 0, 1, 2, 3}

\* similarity_search_with_score(query, k): at most k distinct entries of the
\* collection with their distances, nearest first.
BackendHits(idx, k) ==
    LET m == Min2(k, Cardinality(idx))
    IN  {h \in [1..m -> idx \X Distances] :
            /\ \A i, j \in 1..m : i # j => h[i][1] # h[j][1]
            /\ \A i \in 1..(m - 1) : h[i][2] <= h[i + 1][2]}

\* The conversion without the subtraction.
similarity_score_raw(score) == IF score < ONE THEN score ELSE 0

\* Line 225: similarity_score = 1 - score if score < 1 else 0.0
similarity_score(score) == IF score < ONE THEN ONE - score ELSE 0

\* Lines 221-232: the documents similarity_search returns for the hits.
format_results(hits) ==
    [i \in 1..Len(hits) |->
        [id |-> hits[i][1].chunk_id,
         content |-> hits[i][1].chunk_id,   \* the chunk's text, told apart by its id
         metadata |-> hits[i][1],
         score |-> similarity_score(hits[i][2])]]

\* ===================================================== DocumentService
\* Line 324: chunk_ids = [result.get("documents_added", len(chunks))]
recorded_chunk_ids(result) == <<IntAsId(result.documents_added)>>

Returned(op, ok, k, docs) == [op |-> op, ok |-> ok, k |-> k, docs |-> docs]

\* process_document, lines 310-321: the collection after the upload numbered
\* serial of a file yielding n chunks.
uploaded_index(idx, filename, n, serial) ==
    IF n = 0 THEN idx
    ELSE add_documents(idx, n, [filename |-> filename, document_id |-> DocId(serial)],
                       serial)

\* process_document, lines 302-339: the metadata after that upload; a file
\* without chunks leaves no record.
uploaded_metadata(md, filename, n, serial) ==
    IF n = 0 THEN md
    ELSE [d \in DOMAIN md \cup {DocId(serial)} |->
            IF d = DocId(serial)
            THEN [id |-> DocId(serial),
                  filename |-> filename,
                  chunk_count |-> n,
                  chunk_ids |-> recorded_chunk_ids(add_documents_result(n)),
                  processed |-> TRUE]
            ELSE md[d]]

\* DocumentService.process_document(filename, content); the content yields n
\* chunks (0: no text could be extracted). It returns the document_id and
\* chunks_created (lines 304-308 and 342-345).
ProcessDocument(filename, n) ==
    /\ uploads < MaxDocs
    /\ Cardinality(index) + n <= MaxIndex
    /\ uploads' = uploads + 1
    /\ index' = uploaded_index(index, filename, n, uploads + 1)
    /\ documents_metadata' =
          uploaded_metadata(documents_metadata, filename, n, uploads + 1)
    /\ ret' = Returned("process_document", TRUE, n, <<DocId(uploads + 1)>>)
    /\ UNCHANGED deleted

\* DocumentService.delete_document(document_id). The backend either refuses
\* an id that is not a string (strict) or ignores it like any unknown id.
DeleteDocument(document_id, strict) ==
    /\ IF document_id \notin DOMAIN documents_metadata
       THEN /\ ret' = Returned("delete_document", FALSE, 0, <<>>)
            /\ UNCHANGED <<index, documents_metadata, deleted>>
       ELSE LET chunk_ids == documents_metadata[document_id].chunk_ids
            IN  IF chunk_ids # <<>> /\ strict
                        /\ \E x \in Range(chunk_ids) : ~IsStrId(x)
                THEN /\ ret' = Returned("delete_document", FALSE, 0, <<>>)
                     /\ UNCHANGED <<index, documents_metadata, deleted>>
                ELSE /\ index' = collection_delete_ids(index, chunk_ids)
                     /\ documents_metadata' =
                          [d \in DOMAIN documents_metadata \ {document_id} |->
                             documents_metadata[d]]
                     /\ deleted' = deleted \cup {document_id}
                     /\ ret' = Returned("delete_document", TRUE, 0, <<>>)
    /\ UNCHANGED uploads

\* VectorStoreService.similarity_search(query, k)
SimilaritySearch(k) ==
    /\ \E hits \in BackendHits(index, k) :
          ret' = Returned("similarity_search", TRUE, k, format_results(hits))
    /\ UNCHANGED <<index, documents_metadata, uploads, deleted>>

Init == SplitIdle /\ StoreIdle /\ QueryIdle /\ ProcIdle

\* The service calls are made one after the other: a call starts when the
\* previous one has handed its result to its caller.
Upload ==
    /\ ret = NoCall
    /\ \E f \in Filenames, n \in 0..MaxChunks : ProcessDocument(f, n)
    /\ UNCHANGED <<splitVars, queryVars, indexVars, procVars>>

Delete ==
    /\ ret = NoCall
    /\ \E n \in 1..MaxDocs, strict \in BOOLEAN : DeleteDocument(DocId(n), strict)
    /\ UNCHANGED <<splitVars, queryVars, indexVars, procVars>>

Search ==
    /\ ret = NoCall
    /\ \E k \in 1..MaxK : SimilaritySearch(k)
    /\ UNCHANGED <<splitVars, queryVars, indexVars, procVars>>

\* The caller takes the result of the call.
Return ==
    /\ ret # NoCall
    /\ ret' = NoCall
    /\ UNCHANGED <<index, documents_metadata, uploads, deleted>>
    /\ UNCHANGED <<splitVars, queryVars, indexVars, procVars>>

Next == Upload \/ Delete \/ Search \/ Return

Spec == Init /\ [][Next]_vars

\* ======================================================== claims on Spec
\* C1: once delete_document(d) has completed, no later similarity_search
\* returns a passage whose chunk was created by the upload of d.
C1_DeletedChunksNeverReturned ==
    (ret.op = "similarity_search") =>
        \A i \in 1..Len(ret.docs) : ret.docs[i].metadata.document_id \notin deleted

\* C7: similarity_search returns at most k passages, and their scores are in
\* non-increasing order.
C7_AtMostKByDescendingScore ==
    (ret.op = "similarity_search" /\ ret.ok) =>
        /\ Len(ret.docs) <= ret.k
        /\ \A i \in 1..(Len(ret.docs) - 1) :
              ret.docs[i].score >= ret.docs[i + 1].score

\* C7 witness: a search cut to k = 2 of more chunks, with two different scores.
C7_Witness ==
    /\ ret.op = "similarity_search" /\ ret.ok
    /\ Cardinality(index) > ret.k
    /\ Len(ret.docs) = 2
    /\ ret.docs[1].score > ret.docs[2].score
    /\ ret.docs[2].score > 0

\* C8: every score similarity_search produces lies in [0, 1], whatever
\* distance the backend reports.
C8_ScoreWithinUnitInterval ==
    (ret.op = "similarity_search") =>
        \A i \in 1..Len(ret.docs) :
            ret.docs[i].score >= 0 /\ ret.docs[i].score <= ONE

\* C23: an upload that yields no extractable text stores a Document record
\* in the no-text state with chunk_count = 0, so the document is listed and
\* can be deleted by its id.
C23_NoTextDocumentRecorded ==
    (ret.op = "process_document" /\ ret.ok /\ ret.k = 0) =>
        /\ ret.docs[1] \in DOMAIN documents_metadata
        /\ documents_metadata[ret.docs[1]].chunk_count = 0

\* ============================================================ RAGService
NO_INFO_ANSWER ==
    "I couldn't find any relevant information in the documents to answer your question."
SEARCH_ERROR == "Error searching vector store"
GENERATION_ERROR == "Error generating response"
OLLAMA_CONNECTION_ERROR == "Cannot connect to Ollama"
VALIDATION_ERROR == "SourceDocument validation error"

\* Questions are sequences of characters, as the texts are.
Questions == {<<"q">>, <<"q", "?">>}
\* What the model can answer: some text, or nothing.
Answers == {"an answer", ""}

Raised(message) == [kind |-> "error", answer |-> message, sources |-> <<>>,
                    conversation_id |-> NoneId]

\* metadata.get(key, default)
metadata_get(md, key, default) == IF key \in DOMAIN md THEN md[key] ELSE default

\* The early return taken never.
no_documents_never(docs) == FALSE

\* Line 55: `if not retrieved_docs`
no_documents(docs) == docs = <<>>

\* Lines 56-60: the canned answer.
no_info_response(conversation_id) ==
    [kind |-> "ok", answer |-> NO_INFO_ANSWER, sources |-> <<>>,
     conversation_id |-> conversation_id]

\* _format_sources, lines 110-125
format_sources(docs) ==
    [i \in 1..Len(docs) |->
        [filename |-> metadata_get(docs[i].metadata, "source", "Unknown"),
         chunk_id |-> docs[i].metadata.chunk_id,
         relevance_score |-> docs[i].score]]

\* SourceDocument.relevance_score: ge=0.0, le=1.0
source_document_valid(src) ==
    src.relevance_score >= 0 /\ src.relevance_score <= ONE

\* The log started again with every turn.
update_conversation_restart(convs, conversation_id, question, answer) ==
    [c \in DOMAIN convs \cup {conversation_id} |->
        IF c = conversation_id
        THEN <<[role |-> "user", content |-> question],
               [role |-> "assistant", content |-> answer]>>
        ELSE convs[c]]

\* _update_conversation, lines 136-153
update_conversation(convs, conversation_id, question, answer) ==
    [c \in DOMAIN convs \cup {conversation_id} |->
        IF c = conversation_id
        THEN (IF c \in DOMAIN convs THEN convs[c] ELSE <<>>)
                \o <<[role |-> "user", content |-> question],
                     [role |-> "assistant", content |-> answer]>>
        ELSE convs[c]]

\* The exceptions a stage can end with: none, the ConnectionError of
\* _validate_ollama_connection, any other exception.
Exceptions == {"none", "ConnectionError", "Exception"}

\* similarity_search, lines 241-244: every exception is raised again as
\* "Error searching vector store: ...".
similarity_search_error(e) == SEARCH_ERROR

\* Every failure of the generation reported as a search error.
generate_response_error_as_search(e) == SEARCH_ERROR

\* generate_response, lines 209-214: a ConnectionError is raised again as it
\* is, every other exception as "Error generating response: ...".
generate_response_error(e) ==
    IF e = "ConnectionError" THEN OLLAMA_CONNECTION_ERROR ELSE GENERATION_ERROR

\* _build_context, lines 96-108
build_context(documents) ==
    [i \in 1..Len(documents) |->
        [number |-> i,
         source |-> metadata_get(documents[i].metadata, "source", "Unknown"),
         content |-> documents[i].content]]

\* conversation.messages[-5:]
HISTORY_WINDOW == 5

\* The window taken from the front of the log.
format_conversation_history_oldest(messages) ==
    [i \in 1..Len(Slice(messages, 0, HISTORY_WINDOW)) |->
        [label |-> IF Slice(messages, 0, HISTORY_WINDOW)[i].role = "user"
                   THEN "User" ELSE "Assistant",
         content |-> Slice(messages, 0, HISTORY_WINDOW)[i].content]]

\* _format_conversation_history, lines 127-134: one "User: ..." or
\* "Assistant: ..." line for each of messages[-5:].
format_conversation_history(messages) ==
    [i \in 1..Len(Slice(messages, -HISTORY_WINDOW, Len(messages))) |->
        [label |-> IF Slice(messages, -HISTORY_WINDOW, Len(messages))[i].role = "user"
                   THEN "User" ELSE "Assistant",
         content |-> Slice(messages, -HISTORY_WINDOW, Len(messages))[i].content]]

\* query, lines 65-70: the history of the id, "" when the id has none.
conversation_history(convs, conversation_id) ==
    IF conversation_id \in DOMAIN convs
    THEN format_conversation_history(convs[conversation_id])
    ELSE <<>>

\* The store updated whether or not the query raised.
conversations_after_always(convs, conversation_id, question, answer, raised) ==
    update_conversation(convs, conversation_id, question, answer)

\* query, lines 72-94: _update_conversation is reached only when nothing
\* before it raised; the except clause raises again and touches nothing.
conversations_after(convs, conversation_id, question, answer, raised) ==
    IF raised THEN convs
    ELSE update_conversation(convs, conversation_id, question, answer)

\* One more query of this id ran to the return of lines 86-90.
count_completed(done, conversation_id) ==
    [c \in DOMAIN done \cup {conversation_id} |->
        IF c = conversation_id
        THEN (IF c \in DOMAIN done THEN done[c] ELSE 0) + 1
        ELSE done[c]]

\* query, lines 43-60, on a service whose store is convs: the conversation
\* id, the retrieval, the early return. given: the id the caller sent;
\* fails: similarity_search raises.
QueryRetrieveIn(convs, given, question, conversation_id, max_results, fails) ==
    /\ qpc = "idle"
    /\ queries < MaxQueries
    /\ queries' = queries + 1
    /\ LET cid == IF conversation_id = NoneId THEN NewId(queries + 1)
                                             ELSE conversation_id
       IN  /\ req' = [question |-> question, conversation_id |-> cid,
                      max_results |-> max_results, given |-> given]
           /\ search_calls' = <<[query |-> question, k |-> max_results]>>
           /\ IF fails
              THEN /\ retrieved_docs' = <<>>
                   /\ response' = Raised(similarity_search_error("Exception"))
                   /\ failed' = "retrieval"
                   /\ qpc' = "done"
              ELSE /\ failed' = "none"
                   /\ \E hits \in BackendHits(index, max_results) :
                      /\ retrieved_docs' = format_results(hits)
                      /\ IF no_documents(format_results(hits))
                         THEN /\ response' = no_info_response(cid)
                              /\ qpc' = "done"
                         ELSE /\ response' = NoResponse
                              /\ qpc' = "generating"
    /\ conversations' = convs
    /\ conv_before' = convs
    /\ llm_calls' = <<>>
    /\ conversation_context' = <<>>
    /\ UNCHANGED <<recorded, completed>>

\* RAGService.query called on one service object.
QueryRetrieve(question, conversation_id, max_results, fails) ==
    QueryRetrieveIn(conversations, conversation_id, question, conversation_id,
                    max_results, fails)

\* generate_response, lines 167-186: the chain retrieves for the query once
\* more, with k = TOP_K_RETRIEVAL, and stuffs what it gets into the prompt.
\* The collection ranks its chunks for one query in one way, so of the two
\* retrievals the shorter is a prefix of the longer. The chunk ids of the
\* passages the answer can be generated from:
retriever_passages(idx, docs) ==
    LET ids == {c.chunk_id : c \in idx}
        got == {docs[i].metadata.chunk_id : i \in 1..Len(docs)}
    IN  {S \in SUBSET ids :
            /\ Cardinality(S) = Min2(TOP_K_RETRIEVAL, Cardinality(ids))
            /\ (got \subseteq S \/ S \subseteq got)}

\* query, lines 62-90: the context, the history, the generation call, the
\* sources, the conversation update and the result. e: what
\* generate_response ends with.
QueryGenerate(answer, e) ==
    /\ qpc = "generating"
    /\ conversation_context' =
          conversation_history(conversations, req.conversation_id)
    /\ \E passages \in retriever_passages(index, retrieved_docs) :
          llm_calls' = Append(llm_calls, [query |-> req.question,
                                          k |-> TOP_K_RETRIEVAL,
                                          passages |-> passages])
    /\ LET sources == format_sources(retrieved_docs)
           invalid == \E i \in 1..Len(sources) : ~source_document_valid(sources[i])
           raised == e # "none" \/ invalid
       IN  /\ conversations' = conversations_after(
                  conversations, req.conversation_id, req.question, answer, raised)
           /\ recorded' = conversations_after(
                  recorded, req.conversation_id, req.question, answer, raised)
           /\ completed' = IF raised THEN completed
                           ELSE count_completed(completed, req.conversation_id)
           /\ failed' = IF e # "none" THEN "generation"
                        ELSE IF invalid THEN "sources" ELSE "none"
           /\ response' =
                IF e # "none" THEN Raised(generate_response_error(e))
                ELSE IF invalid THEN Raised(VALIDATION_ERROR)
                ELSE [kind |-> "ok", answer |-> answer, sources |-> sources,
                      conversation_id |-> req.conversation_id]
    /\ qpc' = "done"
    /\ UNCHANGED <<req, retrieved_docs, conv_before, queries, search_calls>>

\* The collection left in place.
client_delete_collection_kept(idx) == idx

\* client.delete_collection(name), line 265: the collection and all it holds
\* are gone.
client_delete_collection(idx) == {}

\* VectorStoreService.delete_collection, lines 261-286: the collection is
\* deleted and created again; collection and vectorstore both refer to the
\* new one.
DeleteCollection ==
    /\ index' = client_delete_collection(index)
    /\ collection_cfg' = recreate_collection(collection_cfg)
    /\ emptied' = TRUE
    /\ ret' = Returned("delete_collection", TRUE, 0, <<>>)
    /\ UNCHANGED <<documents_metadata, uploads, deleted, startup_cfg>>

\* The collection as one upload leaves it.
QueryInit ==
    /\ SplitIdle /\ QueryIdle /\ IndexStarted /\ ProcIdle
    /\ \E f \in Filenames, n \in 0..MaxChunks :
          /\ n = 0 => f = "a.pdf"
          /\ index = uploaded_index({}, f, n, 1)
          /\ documents_metadata = uploaded_metadata(<<>>, f, n, 1)
    /\ uploads = 1
    /\ deleted = {}
    /\ ret = NoCall

Retrieve ==
    /\ ret = NoCall
    /\ \E q \in Questions, c \in {NoneId, GivenId}, k \in 1..MaxK,
          fails \in BOOLEAN : QueryRetrieve(q, c, k, fails)
    /\ UNCHANGED <<splitVars, storeVars, indexVars, procVars>>

Generate ==
    /\ \E a \in Answers, e \in Exceptions : QueryGenerate(a, e)
    /\ UNCHANGED <<splitVars, storeVars, indexVars, procVars>>

\* The caller takes query's result.
TakeResult ==
    /\ qpc = "done"
    /\ qpc' = "idle"
    /\ req' = NoRequest
    /\ retrieved_docs' = <<>>
    /\ response' = NoResponse
    /\ llm_calls' = <<>>
    /\ search_calls' = <<>>
    /\ conversation_context' = <<>>
    /\ failed' = "none"
    /\ conv_before' = conversations
    /\ UNCHANGED <<conversations, queries, recorded, completed>>

QueryReturn ==
    /\ TakeResult
    /\ UNCHANGED <<splitVars, storeVars, indexVars, procVars>>

Reset ==
    /\ ret = NoCall
    /\ qpc = "idle"
    /\ DeleteCollection
    /\ UNCHANGED <<splitVars, queryVars, procVars>>

QueryNext == Retrieve \/ Generate \/ QueryReturn \/ Reset \/ Return

QuerySpec == QueryInit /\ [][QueryNext]_vars

\* =================================================== claims on QuerySpec
\* The query ended and its retrieval returned zero passages.
ZeroPassages ==
    /\ qpc = "done"
    /\ retrieved_docs = <<>>
    /\ response # Raised(SEARCH_ERROR)

\* C9: when retrieval returns zero passages, query returns the canned
\* no-information answer with no sources and a conversation id, and the
\* generation capability is never invoked for that query.
C9_NoContextShortCircuit ==
    ZeroPassages =>
        /\ response = no_info_response(req.conversation_id)
        /\ response.conversation_id # NoneId
        /\ llm_calls = <<>>

\* C9 witness: a query without a conversation id against the empty
\* collection has ended.
C9_Witness ==
    /\ ZeroPassages
    /\ index = {}
    /\ response.answer = NO_INFO_ANSWER
    /\ response.conversation_id = NewId(queries)

CompletedFor(c) == IF c \in DOMAIN completed THEN completed[c] ELSE 0

\* Every log alternates user, assistant and holds two messages for each
\* completed query of its id.
LogsWellFormed ==
    /\ DOMAIN completed \subseteq DOMAIN conversations
    /\ \A c \in DOMAIN conversations :
          /\ Len(conversations[c]) = 2 * CompletedFor(c)
          /\ \A i \in 1..Len(conversations[c]) :
                conversations[c][i].role =
                    IF i % 2 = 1 THEN "user" ELSE "assistant"

\* A step keeps every log as a prefix of what it becomes, and the step that
\* completes a query appends the question and the answer, in this order, to
\* the log of the query's id.
LogsOnlyAppended ==
    /\ \A c \in DOMAIN conversations :
          /\ c \in DOMAIN conversations'
          /\ Len(conversations'[c]) >= Len(conversations[c])
          /\ SubSeq(conversations'[c], 1, Len(conversations[c])) = conversations[c]
    /\ \A c \in DOMAIN conversations' :
          LET before == IF c \in DOMAIN conversations THEN conversations[c] ELSE <<>>
          IN  IF completed' # completed /\ c = req.conversation_id
              THEN conversations'[c] =
                     before \o <<[role |-> "user", content |-> req.question],
                                 [role |-> "assistant", content |-> response'.answer]>>
              ELSE conversations'[c] = before

\* C12: for every conversation id the stored messages are in append order:
\* each completed query appends exactly one user message followed by one
\* assistant message, no existing message is reordered, modified or removed,
\* and after n completed queries the log has 2n messages alternating user,
\* assistant.
C12_AppendOrder == []LogsWellFormed /\ [][LogsOnlyAppended]_vars

\* C12 witness: two queries of one id completed, the log holds four messages.
C12_Witness ==
    /\ GivenId \in DOMAIN conversations
    /\ CompletedFor(GivenId) = 2
    /\ Len(conversations[GivenId]) = 4
    /\ conversations[GivenId][3].role = "user"

\* C15 as claimed: in every query that reaches generation, the generation
\* capability is invoked with the context assembled in that query from the
\* retrieved passages and with the conversation history of its id, together
\* with the question.
C15_GenerationGetsAssembledContext ==
    \A i \in 1..Len(llm_calls) :
        /\ llm_calls[i].query = req.question
        /\ "context" \in DOMAIN llm_calls[i]
        /\ "history" \in DOMAIN llm_calls[i]
        /\ llm_calls[i].context = build_context(retrieved_docs)
        /\ llm_calls[i].history = conversation_context

\* C24: the sources of a completed query correspond one-to-one and in order
\* to the retrieved passages, each carrying its passage's chunk_id, its score
\* and the filename under which the passage's document was indexed.
C24_SourcesMatchPassages ==
    (qpc = "done" /\ response.kind = "ok") =>
        /\ Len(response.sources) = Len(retrieved_docs)
        /\ \A i \in 1..Len(response.sources) :
              /\ response.sources[i].chunk_id = retrieved_docs[i].metadata.chunk_id
              /\ response.sources[i].relevance_score = retrieved_docs[i].score
              /\ response.sources[i].filename = retrieved_docs[i].metadata.filename

\* C29: the passages a completed query reports as sources are the passages
\* its answer was generated from: the orchestrator's retrieval with
\* max_results and the generation step's retrieval give the same set.
C29_SourcesAreGenerationPassages ==
    (qpc = "done" /\ response.kind = "ok" /\ llm_calls # <<>>) =>
        {response.sources[i].chunk_id : i \in 1..Len(response.sources)}
            = llm_calls[1].passages

\* C16: when retrieval or generation fails during a query, the conversation
\* store is left exactly as it was before the query: neither the user
\* message nor an assistant message is appended.
C16_FailureLeavesStore ==
    (qpc = "done" /\ failed # "none") => conversations = conv_before

\* C16 witness: a conversation exists and the generation of a later query of
\* its id failed.
C16_Witness ==
    /\ qpc = "done"
    /\ failed = "generation"
    /\ req.conversation_id = GivenId
    /\ GivenId \in DOMAIN conversations
    /\ Len(conversations[GivenId]) = 2

\* The stage an error message names.
StageOf(message) ==
    IF message = SEARCH_ERROR THEN "retrieval"
    ELSE IF message \in {GENERATION_ERROR, OLLAMA_CONNECTION_ERROR} THEN "generation"
    ELSE "other"

LogsOf(t) ==
    {[i \in 1..(2 * t) |->
        IF i % 2 = 1 THEN [role |-> "user", content |-> qs[(i + 1) \div 2]]
                     ELSE [role |-> "assistant", content |-> as[i \div 2]]] :
     qs \in [1..t -> Questions], as \in [1..t -> Answers]}

HistoryInit ==
    /\ SplitIdle /\ StoreIdle /\ ProcIdle
    /\ qpc = "idle" /\ req = NoRequest /\ retrieved_docs = <<>>
    /\ response = NoResponse /\ llm_calls = <<>> /\ queries = 0
    /\ search_calls = <<>> /\ conversation_context = <<>> /\ failed = "none"
    /\ \E t \in 1..MaxTurns : \E log \in LogsOf(t) :
          /\ conversations = [c \in {GivenId} |-> log]
          /\ conv_before = [c \in {GivenId} |-> log]
          /\ recorded = [c \in {GivenId} |-> log]
          /\ completed = [c \in {GivenId} |-> t]

\* query, lines 65-70, for the conversation of the store.
FormatHistory ==
    /\ qpc = "idle"
    /\ qpc' = "history"
    /\ conversation_context' = conversation_history(conversations, GivenId)
    /\ UNCHANGED <<req, retrieved_docs, response, llm_calls, conversations,
                   conv_before, queries, search_calls, failed, recorded,
                   completed>>
    /\ UNCHANGED <<splitVars, storeVars, indexVars, procVars>>

HistoryNext == FormatHistory

HistorySpec == HistoryInit /\ [][HistoryNext]_vars

\* C14: the history rendered for generation is exactly the last min(5, n)
\* of the conversation's n messages, in their original order; every older
\* message is left out.
C14_LastFiveInOrder ==
    (qpc = "history") =>
        LET m == conversations[GivenId]
            n == Len(m)
            k == IF n < 5 THEN n ELSE 5
        IN  /\ Len(conversation_context) = k
            /\ \A i \in 1..k :
                  /\ conversation_context[i].label =
                        (IF m[n - k + i].role = "user" THEN "User" ELSE "Assistant")
                  /\ conversation_context[i].content = m[n - k + i].content

\* C14 witness: a conversation of six messages was rendered, the oldest
\* message is not in the five lines.
C14_Witness ==
    /\ qpc = "history"
    /\ Len(conversations[GivenId]) = 6
    /\ Len(conversation_context) = 5
    /\ conversation_context[1].label = "Assistant"

\* ============================================================== IndexSpec
\* IndexSpec: the life of the collection, from the construction of
\* VectorStoreService over a persist directory through uploads,
\* delete_by_source, delete_collection, get_status and similarity_search.

\* The delete that matches nothing.
collection_delete_where_nothing(idx, key, value) == idx

\* collection.delete(where={key: value}): every entry whose metadata has this
\* value under this key goes.
collection_delete_where(idx, key, value) == {c \in idx : c[key] # value}

\* VectorStoreService.delete_by_source(source), lines 316-335
DeleteBySource(source) ==
    /\ index' = collection_delete_where(index, "filename", source)
    /\ ret' = Returned("delete_by_source", TRUE, 0, <<source>>)
    /\ UNCHANGED <<documents_metadata, uploads, deleted>>

\* VectorStoreService.get_status(), lines 337-359: k is the document_count.
GetStatus ==
    /\ ret' = Returned("get_status", TRUE, Cardinality(index), <<>>)
    /\ UNCHANGED <<index, documents_metadata, uploads, deleted>>

\* The persist directory before the process starts: empty, or holding the
\* collection an earlier run left, created with either metric.
IndexInit ==
    /\ SplitIdle /\ QueryIdle /\ ProcIdle
    /\ index = {} /\ documents_metadata = <<>> /\ uploads = 0
    /\ deleted = {} /\ ret = NoCall
    /\ collection_cfg \in {NoCollection,
                           [exists |-> TRUE, space |-> DEFAULT_SPACE],
                           [exists |-> TRUE, space |-> COSINE]}
    /\ startup_cfg = NoCollection
    /\ emptied = FALSE

\* VectorStoreService.__init__, lines 49-109, run once (the singleton).
Startup ==
    /\ ~startup_cfg.exists
    /\ collection_cfg' = init_collection(collection_cfg)
    /\ startup_cfg' = init_collection(collection_cfg)
    /\ UNCHANGED emptied
    /\ UNCHANGED <<splitVars, storeVars, queryVars, procVars>>

IndexUpload ==
    /\ startup_cfg.exists
    /\ ret = NoCall
    /\ \E f \in Filenames, n \in 0..MaxChunks :
          /\ ProcessDocument(f, n)
          /\ emptied' = (emptied /\ n = 0)
    /\ UNCHANGED <<collection_cfg, startup_cfg>>
    /\ UNCHANGED <<splitVars, queryVars, procVars>>

IndexDeleteBySource ==
    /\ startup_cfg.exists
    /\ ret = NoCall
    /\ \E f \in Filenames : DeleteBySource(f)
    /\ UNCHANGED <<splitVars, queryVars, indexVars, procVars>>

IndexReset == startup_cfg.exists /\ Reset

IndexStatus ==
    /\ startup_cfg.exists
    /\ ret = NoCall
    /\ GetStatus
    /\ UNCHANGED <<splitVars, queryVars, indexVars, procVars>>

IndexSearch == startup_cfg.exists /\ Search

IndexNext ==
    \/ Startup \/ IndexUpload \/ IndexDeleteBySource \/ IndexReset
    \/ IndexStatus \/ IndexSearch \/ Return

IndexSpec == IndexInit /\ [][IndexNext]_vars

\* ==================================================== claims on IndexSpec
\* C18: after delete_by_source is called for a document, by the filename it
\* was uploaded under, the index holds no chunk whose metadata references
\* that document.
C18_NoChunkOfDeletedSource ==
    (ret.op = "delete_by_source") =>
        /\ \A c \in index : c.filename # ret.docs[1]
        /\ \A d \in DOMAIN documents_metadata :
              documents_metadata[d].filename = ret.docs[1] =>
                  \A c \in index : c.document_id # d

\* C18 witness: a document of two chunks was deleted by its filename while
\* the chunks of another document stay.
C18_Witness ==
    /\ ret.op = "delete_by_source"
    /\ index # {}
    /\ \E d \in DOMAIN documents_metadata :
          /\ documents_metadata[d].filename = ret.docs[1]
          /\ documents_metadata[d].chunk_count = 2

\* C28: delete_by_source for one document leaves the chunks of every other
\* document unchanged, also when another document was uploaded under the same
\* filename: one call never takes chunks of more than one document.
C28_OtherDocumentsKept ==
    [][(ret.op = "none" /\ ret'.op = "delete_by_source") =>
          Cardinality({c.document_id : c \in index \ index'}) <= 1]_vars

\* C19: after delete_collection has completed, whatever was added before,
\* the index is empty until the next add: get_status reports 0 documents and
\* every similarity_search returns an empty list.
C19_EmptyAfterReset ==
    emptied =>
        /\ index = {}
        /\ (ret.op = "get_status") => ret.k = 0
        /\ (ret.op = "similarity_search") => ret.docs = <<>>

\* C19 witness: chunks were added, the collection was reset and a search
\* after the reset has returned.
C19_Witness ==
    /\ emptied
    /\ uploads > 0
    /\ documents_metadata # <<>>
    /\ ret.op = "similarity_search"
    /\ ret.docs = <<>>

\* C20 as claimed: the collection that exists after delete_collection has
\* the configuration of the collection the service had after __init__, in
\* particular the same distance metric.
C20_ResetKeepsConfiguration ==
    (ret.op = "delete_collection") => collection_cfg = startup_cfg

\* ================================================================ the API
\* ApiSpec: the requests as the routers serve them. Every request is given
\* its own RAGService by get_rag_service.
INVALID_QUERY == "Question cannot be empty"

\* Questions as they arrive in a request body.
RawQuestions == {<<>>, <<" ">>, <<" ", " ">>, <<"q">>, <<" ", "q">>, <<"q", "?">>}

\* QueryRequest.validate_question, schemas.py lines 35-41: ValueError for a
\* blank question, the stripped question otherwise.
validate_question(v) ==
    IF IsBlank(v) THEN [ok |-> FALSE, question |-> v]
    ELSE [ok |-> TRUE, question |-> Strip(v)]

\* routes.py lines 139-143: `if not request.question or not
\* request.question.strip()` answers 400.
route_rejects(question) == IsBlank(question)

\* get_rag_service: RAGService(), whose __init__ starts an empty store.
get_rag_service == <<>>

\* The ids a client can send with a request: none, its own, or one under
\* which turns were recorded.
ClientIds == {NoneId, GivenId} \cup DOMAIN recorded

\* POST /query, routes.py lines 121-169, up to the early return of
\* RAGService.query. The request model has no conversation_id field and the
\* route passes none: query always runs with conversation_id=None.
QueryDocuments(raw, client_id, max_results, fails) ==
    LET request == validate_question(raw)
    IN  IF ~request.ok \/ route_rejects(request.question)
        THEN /\ qpc = "idle"
             /\ queries < MaxQueries
             /\ queries' = queries + 1
             /\ req' = [question |-> raw, conversation_id |-> NoneId,
                        max_results |-> max_results, given |-> client_id]
             /\ response' = Raised(INVALID_QUERY)
             /\ failed' = "validation"
             /\ qpc' = "done"
             /\ retrieved_docs' = <<>>
             /\ search_calls' = <<>>
             /\ llm_calls' = <<>>
             /\ conversation_context' = <<>>
             /\ conversations' = get_rag_service
             /\ conv_before' = get_rag_service
             /\ UNCHANGED <<recorded, completed>>
        ELSE QueryRetrieveIn(get_rag_service, client_id, request.question,
                             NoneId, max_results, fails)

\* GET /conversations/{conversation_id}, chat.py lines 65-95, answered by
\* RAGService.get_conversation_history (lines 155-157) of the request's own
\* service: 404 when the id is not in its store.
GetConversationHistory(conversation_id) ==
    /\ qpc = "idle"
    /\ conversations' = get_rag_service
    /\ conv_before' = get_rag_service
    /\ ret' = IF conversation_id \in DOMAIN get_rag_service
              THEN Returned("get_conversation_history", TRUE, conversation_id,
                            get_rag_service[conversation_id])
              ELSE Returned("get_conversation_history", FALSE, conversation_id,
                            <<>>)
    /\ UNCHANGED <<qpc, req, retrieved_docs, response, llm_calls, queries,
                   search_calls, conversation_context, failed, recorded,
                   completed>>
    /\ UNCHANGED <<index, documents_metadata, uploads, deleted>>

\* QueryResponse.validate_sources, schemas.py lines 51-62: every source has
\* to be a dict with the keys 'content' and 'metadata'. (The field type
\* List[Dict[str, Any]] refuses a SourceDocument object before that.)
validate_sources(v) ==
    \A i \in 1..Len(v) : "content" \in DOMAIN v[i] /\ "metadata" \in DOMAIN v[i]

QUERY_ERROR == "Error processing query"
INTERNAL_SERVER_ERROR == "Internal Server Error"

\* query_documents, routes.py lines 147-169: the response built from what
\* RAGService.query returned or raised. A blank question never reaches the
\* route: the request model refuses it (422).
query_http(question, result) ==
    IF result.kind = "ok"
    THEN IF validate_sources(result.sources)
         THEN [route |-> "query", status |-> 200,
               body |-> [question |-> question, answer |-> result.answer,
                         sources |-> result.sources],
               of |-> result]
         ELSE [route |-> "query", status |-> 500,
               body |-> [detail |-> QUERY_ERROR], of |-> result]
    ELSE IF result.answer = INVALID_QUERY
         THEN [route |-> "query", status |-> 422,
               body |-> [detail |-> INVALID_QUERY], of |-> result]
         ELSE [route |-> "query", status |-> 500,
               body |-> [detail |-> QUERY_ERROR], of |-> result]

\* LLMService.__init__, llm_service.py line 50: _validate_ollama_connection
\* raises ConnectionError when the Ollama server does not answer.
llm_service_init(b) == IF b.ollama THEN "LLMService" ELSE "ConnectionError"

\* LLMService.check_connection, lines 216-231
check_connection(b) == b.ollama

\* VectorStoreService.get_status()["healthy"], lines 344-359
get_status_healthy(b) == b.store

\* health_check, routes.py lines 187-218: the HealthResponse of the handler.
health_response(ollama_connected, vector_store_ready) ==
    [status |-> IF ollama_connected /\ vector_store_ready THEN "healthy"
                ELSE IF ollama_connected \/ vector_store_ready THEN "degraded"
                ELSE "unhealthy",
     ollama_connected |-> ollama_connected,
     vector_store_ready |-> vector_store_ready]

\* GET /health, routes.py lines 176-228. The dependencies are resolved before
\* the handler is entered: get_llm_service constructs an LLMService, and an
\* exception of the constructor is not the handler's to catch.
HealthCheck ==
    http' = IF llm_service_init(backend) = "ConnectionError"
            THEN [route |-> "health", status |-> 500,
                  body |-> [detail |-> INTERNAL_SERVER_ERROR],
                  of |-> NoResponse]
            ELSE [route |-> "health", status |-> 200,
                  body |-> health_response(check_connection(backend),
                                           get_status_healthy(backend)),
                  of |-> NoResponse]

BackendStates == [ollama : BOOLEAN, store : BOOLEAN]

ApiQuery ==
    /\ ret = NoCall
    /\ http.route = "none"
    /\ \E raw \in RawQuestions, c \in ClientIds, k \in 1..MaxK,
          fails \in BOOLEAN : QueryDocuments(raw, c, k, fails)
    /\ UNCHANGED <<splitVars, storeVars, indexVars, procVars>>

ApiHistory ==
    /\ ret = NoCall
    /\ \E c \in ClientIds \ {NoneId} : GetConversationHistory(c)
    /\ UNCHANGED <<splitVars, indexVars, procVars>>

\* query_documents answers with what the query ended in.
ApiRespond ==
    /\ http.route = "none"
    /\ http' = query_http(req.question, response)
    /\ TakeResult
    /\ UNCHANGED <<backend, singletonVars, loopVars>>
    /\ UNCHANGED <<splitVars, storeVars, indexVars>>

ApiHealth ==
    /\ ret = NoCall /\ qpc = "idle"
    /\ http.route = "none"
    /\ HealthCheck
    /\ UNCHANGED <<backend, singletonVars, loopVars>>
    /\ UNCHANGED <<splitVars, storeVars, queryVars, indexVars>>

\* The client has the response.
ApiSent ==
    /\ http.route # "none"
    /\ http' = NoHttp
    /\ UNCHANGED <<backend, singletonVars, loopVars>>
    /\ UNCHANGED <<splitVars, storeVars, queryVars, indexVars>>

\* Between two requests the Ollama server or the collection goes down or
\* comes back.
BackendChange ==
    /\ ret = NoCall /\ qpc = "idle"
    /\ http.route = "none"
    /\ \E b \in BackendStates : b # backend /\ backend' = b
    /\ UNCHANGED <<http, singletonVars, loopVars>>
    /\ UNCHANGED <<splitVars, storeVars, queryVars, indexVars>>

ApiNext ==
    \/ ApiQuery \/ Generate \/ ApiRespond \/ ApiHistory \/ Return
    \/ ApiHealth \/ ApiSent \/ BackendChange

ApiSpec == QueryInit /\ [][ApiNext]_vars

C13_HistoryAvailableAcrossRequests ==
    /\ (qpc = "generating" /\ req.given \in DOMAIN recorded) =>
          /\ req.given \in DOMAIN conversations
          /\ conversations[req.given] = recorded[req.given]
    /\ (ret.op = "get_conversation_history" /\ ret.k \in DOMAIN recorded) =>
          /\ ret.ok
          /\ ret.docs = recorded[ret.k]

\* C25: a valid query for which retrieval returned at least one passage and
\* generation succeeded is answered successfully, with the answer and the
\* non-empty sources list: building the response never fails validation.
C25_QueryResponseBuilt ==
    (http.route = "query" /\ http.of.kind = "ok" /\ http.of.sources # <<>>) =>
        /\ http.status = 200
        /\ http.body.answer = http.of.answer
        /\ Len(http.body.sources) = Len(http.of.sources)

\* C30: /health always answers with a HealthResponse: ollama_connected tells
\* whether the LLM backend is reachable, and status is 'healthy' when both it
\* and the vector store are up, 'degraded' when one is, 'unhealthy' when
\* neither is.
C30_HealthAlwaysAnswers ==
    (http.route = "health") =>
        /\ http.status = 200
        /\ http.body.ollama_connected = backend.ollama
        /\ http.body.status =
              (IF backend.ollama /\ backend.store THEN "healthy"
               ELSE IF backend.ollama \/ backend.store THEN "degraded"
               ELSE "unhealthy")

\* ======================================================== SingletonSpec
\* VectorStoreService() called from several threads: the dependency getters
\* of routes.py are plain functions, which the framework runs in its thread
\* pool, and the start-up call of lifespan may have failed before them.
\* Between two bytecodes of one thread any other thread may run.

Thread == 1..MaxThreads

at(t, pc) == threads[t].pc = pc
goto(t, pc, self) == threads' = [threads EXCEPT ![t] = [pc |-> pc, self |-> self]]

SingletonInit ==
    /\ SplitIdle /\ QueryIdle /\ ApiIdle /\ LoopIdle
    /\ index = {} /\ documents_metadata = <<>> /\ uploads = 0
    /\ deleted = {} /\ ret = NoCall
    /\ collection_cfg = NoCollection /\ startup_cfg = NoCollection
    /\ emptied = FALSE
    /\ instance = 0 /\ initialized = FALSE /\ objects = 0 /\ init_runs = 0
    /\ threads = [t \in Thread |-> [pc |-> "call", self |-> 0]]

\* __new__, line 45: `if cls._instance is None`
NewCheck ==
    /\ \E t \in Thread :
          /\ at(t, "call")
          /\ goto(t, IF instance = 0 THEN "new_create" ELSE "new_return", 0)
    /\ UNCHANGED <<instance, initialized, objects, init_runs>>
    /\ UNCHANGED <<splitVars, storeVars, queryVars, indexVars, apiVars, loopVars>>

\* __new__, line 46: `cls._instance = super().__new__(cls)`
NewCreate ==
    /\ \E t \in Thread :
          /\ at(t, "new_create")
          /\ goto(t, "new_return", 0)
    /\ objects' = objects + 1
    /\ instance' = objects + 1
    /\ UNCHANGED <<initialized, init_runs>>
    /\ UNCHANGED <<splitVars, storeVars, queryVars, indexVars, apiVars, loopVars>>

\* __new__, line 47: `return cls._instance`; __init__ is called on it.
NewReturn ==
    /\ \E t \in Thread :
          /\ at(t, "new_return")
          /\ goto(t, "init", instance)
    /\ UNCHANGED <<instance, initialized, objects, init_runs>>
    /\ UNCHANGED <<splitVars, storeVars, queryVars, indexVars, apiVars, loopVars>>

\* __init__, lines 59-60: `if VectorStoreService._initialized: return`
InitCheck ==
    /\ \E t \in Thread :
          /\ at(t, "init")
          /\ goto(t, IF initialized THEN "returned" ELSE "init_body",
                  threads[t].self)
    /\ UNCHANGED <<instance, initialized, objects, init_runs>>
    /\ UNCHANGED <<splitVars, storeVars, queryVars, indexVars, apiVars, loopVars>>

\* __init__, lines 62-98: the embedding model, the client, the wrapper and
\* the collection.
InitBody ==
    /\ \E t \in Thread :
          /\ at(t, "init_body")
          /\ goto(t, "init_mark", threads[t].self)
    /\ init_runs' = init_runs + 1
    /\ collection_cfg' = init_collection(collection_cfg)
    /\ startup_cfg' = init_collection(collection_cfg)
    /\ UNCHANGED <<instance, initialized, objects, emptied>>
    /\ UNCHANGED <<splitVars, storeVars, queryVars, apiVars, loopVars>>

\* __init__, line 101: `VectorStoreService._initialized = True`, and return.
InitMark ==
    /\ \E t \in Thread :
          /\ at(t, "init_mark")
          /\ goto(t, "returned", threads[t].self)
    /\ initialized' = TRUE
    /\ UNCHANGED <<instance, objects, init_runs>>
    /\ UNCHANGED <<splitVars, storeVars, queryVars, indexVars, apiVars, loopVars>>

SingletonNext ==
    NewCheck \/ NewCreate \/ NewReturn \/ InitCheck \/ InitBody \/ InitMark

SingletonSpec == SingletonInit /\ [][SingletonNext]_vars

\* ================================================ claims on SingletonSpec
\* C22: every call of VectorStoreService() returns the same instance, and
\* the initialization body of that instance runs at most once, under any
\* interleaving of concurrent constructor calls.
C22_OneInstanceInitializedOnce ==
    /\ init_runs <= 1
    /\ \A t, u \in Thread :
          (at(t, "returned") /\ at(u, "returned")) =>
              threads[t].self = threads[u].self

\* ============================================================= LoopSpec
\* The requests as the server's event loop runs them. Every route handler is
\* an `async def` coroutine run by the one event loop thread: a handler that
\* has the thread keeps it until it awaits something that is not ready, and
\* the service calls it makes are plain calls (RAGService.query and
\* DocumentService.process_document are coroutines without an await inside).

Request == 1..MaxRequests
Routes == {"query", "upload", "reset"}

\* The first statement of each handler.
first_position(kind) ==
    CASE kind = "query" -> "retrieving"
      [] kind = "upload" -> "reading"
      [] kind = "reset" -> "deleting"

\* A reset that gives the thread away between its steps.
suspends_in_reset(kind, pc) ==
    kind = "reset" \/ (kind = "upload" /\ pc = "reading")

\* The statements at which a handler hands the thread back to the loop
\* before it is done: `contents = await file.read()`, routes.py line 80.
suspends(kind, pc) == kind = "upload" /\ pc = "reading"

running(t, pc) == loop = t /\ tasks[t].pc = pc

\* The handler of t has executed the statement at its position and is at
\* pc_next.
after(t, pc_next) ==
    /\ tasks' = [tasks EXCEPT ![t].pc = pc_next]
    /\ loop' = IF pc_next = "done" \/ suspends(tasks[t].kind, tasks[t].pc)
               THEN 0 ELSE t

LoopInit ==
    /\ SplitIdle /\ StoreIdle /\ QueryIdle /\ ApiIdle /\ SingletonIdle
    /\ tasks \in [Request -> [kind : Routes, pc : {"pending"}]]
    /\ loop = 0 /\ coll = "ready" /\ seen = {}

\* The loop starts the handler of a request that came in.
TaskStart ==
    /\ loop = 0
    /\ \E t \in Request :
          /\ tasks[t].pc = "pending"
          /\ tasks' = [tasks EXCEPT ![t].pc = first_position(tasks[t].kind)]
          /\ loop' = t
    /\ UNCHANGED <<coll, seen>>
    /\ UNCHANGED <<splitVars, storeVars, queryVars, indexVars, apiVars, singletonVars>>

\* The loop resumes a handler whose await is ready.
TaskResume ==
    /\ loop = 0
    /\ \E t \in Request :
          /\ tasks[t].pc \notin {"pending", "done"}
          /\ loop' = t
    /\ UNCHANGED <<tasks, coll, seen>>
    /\ UNCHANGED <<splitVars, storeVars, queryVars, indexVars, apiVars, singletonVars>>

\* upload_document, routes.py line 80: `await file.read()`
TaskRead ==
    /\ \E t \in Request : running(t, "reading") /\ after(t, "adding")
    /\ UNCHANGED <<coll, seen>>
    /\ UNCHANGED <<splitVars, storeVars, queryVars, indexVars, apiVars, singletonVars>>

\* upload_document, lines 95-98: process_document, which calls add_documents.
TaskAdd ==
    /\ \E t \in Request : running(t, "adding") /\ after(t, "done")
    /\ seen' = seen \cup {<<"add_documents", coll>>}
    /\ UNCHANGED coll
    /\ UNCHANGED <<splitVars, storeVars, queryVars, indexVars, apiVars, singletonVars>>

\* RAGService.query, lines 50-53: similarity_search, a blocking call.
TaskSearch ==
    /\ \E t \in Request : running(t, "retrieving") /\ after(t, "generating")
    /\ seen' = seen \cup {<<"similarity_search", coll>>}
    /\ UNCHANGED coll
    /\ UNCHANGED <<splitVars, storeVars, queryVars, indexVars, apiVars, singletonVars>>

\* RAGService.query, lines 74-77: generate_response, a blocking call whose
\* chain retrieves from the vectorstore.
TaskGenerate ==
    /\ \E t \in Request : running(t, "generating") /\ after(t, "done")
    /\ seen' = seen \cup {<<"retriever", coll>>}
    /\ UNCHANGED coll
    /\ UNCHANGED <<splitVars, storeVars, queryVars, indexVars, apiVars, singletonVars>>

\* delete_collection, line 265: client.delete_collection
TaskDelete ==
    /\ \E t \in Request : running(t, "deleting") /\ after(t, "recreating")
    /\ coll' = "deleted"
    /\ UNCHANGED seen
    /\ UNCHANGED <<splitVars, storeVars, queryVars, indexVars, apiVars, singletonVars>>

\* delete_collection, lines 268-271: self.collection is the new collection,
\* self.vectorstore still wraps the deleted one.
TaskRecreate ==
    /\ \E t \in Request : running(t, "recreating") /\ after(t, "rewrapping")
    /\ coll' = "recreated"
    /\ UNCHANGED seen
    /\ UNCHANGED <<splitVars, storeVars, queryVars, indexVars, apiVars, singletonVars>>

\* delete_collection, lines 274-278, and the rest of reset_system.
TaskRewrap ==
    /\ \E t \in Request : running(t, "rewrapping") /\ after(t, "done")
    /\ coll' = "ready"
    /\ UNCHANGED seen
    /\ UNCHANGED <<splitVars, storeVars, queryVars, indexVars, apiVars, singletonVars>>

LoopNext ==
    \/ TaskStart \/ TaskResume \/ TaskRead \/ TaskAdd \/ TaskSearch
    \/ TaskGenerate \/ TaskDelete \/ TaskRecreate \/ TaskRewrap

LoopSpec == LoopInit /\ [][LoopNext]_vars

\* ===================================================== claims on LoopSpec
\* C21: while delete_collection is in progress no similarity_search and no
\* add_documents of another request runs: no index call works on the
\* collection between its deletion and the replacement of the handles, and
\* in that state the thread belongs to the reset.
C21_ResetExcludesIndexCalls ==
    /\ \A o \in seen : o[2] = "ready"
    /\ (coll # "ready") => (loop # 0 /\ tasks[loop].kind = "reset")

\* C21 witness: the collection is deleted and not yet recreated while an
\* upload waits for its file to be read and a query has come in.
C21_Witness ==
    /\ coll = "deleted"
    /\ \E u \in Request : tasks[u].kind = "upload" /\ tasks[u].pc = "adding"
    /\ \E q \in Request : tasks[q].kind = "query" /\ tasks[q].pc = "pending"

\* C26: while a query is in its retrieval or generation call, a request
\* that has come in can be started: the loop is free to run its handler.
C26_QueryCallLeavesLoopFree ==
    \A t, u \in Request :
        (/\ tasks[t].kind = "query"
         /\ tasks[t].pc \in {"retrieving", "generating"}
         /\ tasks[u].pc = "pending") => loop = 0

====
